---- MODULE Spec2Model ----
(***************************************************************************)
(* Automated File Organizer (organizer.py): the extension index built from *)
(* the category mapping, the classifier, and the directory scan that moves *)
(* every eligible top-level file into its category folder.                 *)
(*                                                                         *)
(* A Python str is a sequence of one-character strings: "a.p" is           *)
(* <<"a", ".", "p">>.  A path below the target directory is a sequence of  *)
(* names: <<name>> is a top-level entry, <<folder, name>> a file inside a  *)
(* top-level folder.                                                       *)
(***************************************************************************)
EXTENDS Integers, Sequences, FiniteSets, TLC

VARIABLES
    config,        \* the mapping load_config returns: a sequence of <<folder_name, extensions>>
    category_map,  \* the extension -> folder dictionary of get_category_map
    qfile,         \* classify_file's file name argument (index specification)
    folder,        \* classify_file's result (index specification)
    pc,            \* where the program is
    dry_run,       \* the --dry-run flag of the current run
    fs,            \* the file system below the target directory: path -> node
    fs0,           \* the file system when the current run started
    todo,          \* entries of the iterdir() listing not yet visited
    stats,         \* the stats dictionary of organize_directory
    log,           \* the line echoed for each visited entry: name -> line
    prev           \* the run before the current one: its flag, stats, moved files, file system

vars == <<config, category_map, qfile, folder, pc, dry_run, fs, fs0, todo, stats, log, prev>>

(***************************************************************************)
(* Bounds of the model.                                                    *)
(***************************************************************************)
MaxPairs == 2      \* categories in a mapping of the index specification
MaxEntries == 3    \* top-level entries of the target directory at the start

(***************************************************************************)
(* str methods the program calls.                                          *)
(***************************************************************************)
lower_char(c) ==
    CASE c = "A" -> "a" [] c = "D" -> "d" [] c = "P" -> "p" [] c = "Q" -> "q"
      [] c = "O" -> "o" [] OTHER -> c

upper_char(c) ==
    CASE c = "a" -> "A" [] c = "d" -> "D" [] c = "p" -> "P" [] c = "q" -> "Q"
      [] c = "o" -> "O" [] c = "t" -> "T" [] c = "h" -> "H" [] c = "e" -> "E"
      [] c = "r" -> "R" [] c = "n" -> "N" [] c = "b" -> "B" [] OTHER -> c

\* str.lower()
lower(s) == [i \in 1..Len(s) |-> lower_char(s[i])]

RECURSIVE lstrip(_)
lstrip(s) == IF s # <<>> /\ Head(s) = " " THEN lstrip(Tail(s)) ELSE s

RECURSIVE rstrip(_)
rstrip(s) ==
    IF s # <<>> /\ s[Len(s)] = " " THEN rstrip(SubSeq(s, 1, Len(s) - 1)) ELSE s

\* str.strip()
strip(s) == rstrip(lstrip(s))

\* a faulty variant: only the first character changes, the rest keeps its case
capitalize_first_only(s) ==
    [i \in 1..Len(s) |-> IF i = 1 THEN upper_char(s[i]) ELSE s[i]]

\* str.capitalize(): first character upper case, every other one lower case
capitalize(s) ==
    [i \in 1..Len(s) |-> IF i = 1 THEN upper_char(s[i]) ELSE lower_char(s[i])]

(***************************************************************************)
(* get_category_map: the loop over folder_to_extensions.items() and, for   *)
(* each folder, over its extensions; a later assignment to the same key    *)
(* replaces the earlier one.                                               *)
(***************************************************************************)
\* a faulty variant: an extension already in the dictionary keeps its folder
setitem_keep_first(d, key, value) ==
    [k \in DOMAIN d \cup {key} |-> IF k \in DOMAIN d THEN d[k] ELSE value]

\* extension_to_folder[key] = value
setitem(d, key, value) ==
    [k \in DOMAIN d \cup {key} |-> IF k = key THEN value ELSE d[k]]

RECURSIVE add_extensions(_, _, _)
add_extensions(d, clean_folder_name, extensions) ==
    IF extensions = <<>> THEN d
    ELSE add_extensions(setitem(d, strip(lower(Head(extensions))), clean_folder_name),
                        clean_folder_name, Tail(extensions))

RECURSIVE add_folders(_, _)
add_folders(d, items) ==
    IF items = <<>> THEN d
    ELSE add_folders(add_extensions(d, capitalize(strip(Head(items)[1])), Head(items)[2]),
                     Tail(items))

get_category_map(folder_to_extensions) == add_folders(<<>>, folder_to_extensions)

(***************************************************************************)
(* classify_file.                                                          *)
(***************************************************************************)
\* str.rfind("."): the last index of a dot, 0 when there is none
rfind_dot(name) ==
    LET dots == {i \in 1..Len(name) : name[i] = "."}
    IN  IF dots = {} THEN 0 ELSE CHOOSE i \in dots : \A j \in dots : j <= i

\* Path.suffix: from the last dot on, unless that dot starts or ends the name
suffix(name) ==
    LET i == rfind_dot(name)
    IN  IF 1 < i /\ i < Len(name) THEN SubSeq(name, i, Len(name)) ELSE <<>>

Other == <<"O", "t", "h", "e", "r">>

\* a faulty variant: the suffix is looked up as it is spelled
classify_file_case_sensitive(file_path, cmap) ==
    LET extension == suffix(file_path)
    IN  IF extension \in DOMAIN cmap THEN cmap[extension] ELSE Other

classify_file(file_path, cmap) ==
    LET extension == lower(suffix(file_path))
    IN  IF extension \in DOMAIN cmap THEN cmap[extension] ELSE Other

(***************************************************************************)
(* The file system below the target directory.                             *)
(***************************************************************************)
DirNode == [kind |-> "dir", id |-> <<>>]

\* a regular file; id is the path it had in the initial state
FileNode(p) == [kind |-> "file", id |-> p]

\* Path.exists(): a path through a non-directory does not exist
exists(f, p) == p \in DOMAIN f

\* Path.is_dir()
is_dir(f, p) == p \in DOMAIN f /\ f[p].kind = "dir"

\* Path.iterdir(): the names of the immediate children of the target
iterdir(f) == {p[1] : p \in {q \in DOMAIN f : Len(q) = 1}}

\* Path.mkdir(exist_ok=True) of target/d.  An existing directory is fine, an
\* existing non-directory raises FileExistsError; creating a missing one
\* succeeds or raises as the environment (permissions, disk) decides.
mkdir(f, d, env_ok) ==
    IF exists(f, <<d>>)
    THEN [ok |-> is_dir(f, <<d>>), fs |-> f]
    ELSE IF env_ok
         THEN [ok |-> TRUE, fs |-> [p \in DOMAIN f \cup {<<d>>} |->
                                        IF p = <<d>> THEN DirNode ELSE f[p]]]
         ELSE [ok |-> FALSE, fs |-> f]

\* a faulty variant: the file is copied to the destination and the source is kept
shutil_copy(f, name, d) ==
    [p \in DOMAIN f \cup {<<d, name>>} |-> IF p = <<d, name>> THEN f[<<name>>] ELSE f[p]]

\* shutil.move(target/name, target/d/name) on one file system: a rename of
\* the entry (with everything below it) to the destination path
shutil_move(f, name, d) ==
    LET below == {p \in DOMAIN f : p[1] = name}
        rest  == DOMAIN f \ below
    IN  [p \in rest \cup {<<d>> \o q : q \in below} |->
            IF Len(p) >= 2 /\ p[1] = d /\ p[2] = name THEN f[Tail(p)] ELSE f[p]]

(***************************************************************************)
(* move_file_safely.  env is what shutil.move does: "ok", or the exception *)
(* it raises.  The result is the return value, the file system afterwards  *)
(* and the line echoed.                                                    *)
(***************************************************************************)
\* a faulty variant: no conflict check, the move replaces an existing destination
move_file_no_conflict_check(f, source, destination_dir, dry, env) ==
    IF dry
    THEN [ret |-> TRUE, fs |-> f, line |-> "SIMULATED MOVE"]
    ELSE IF env = "ok"
    THEN [ret |-> TRUE, fs |-> shutil_move(f, source, destination_dir), line |-> "MOVED"]
    ELSE IF env = "PermissionError"
    THEN [ret |-> FALSE, fs |-> f, line |-> "FAILED (Permission)"]
    ELSE [ret |-> FALSE, fs |-> f, line |-> "FAILED (Error)"]

move_file_safely(f, source, destination_dir, dry, env) ==
    IF exists(f, <<destination_dir, source>>)
    THEN [ret |-> FALSE, fs |-> f, line |-> "SKIPPED (Conflict)"]
    ELSE IF dry
    THEN [ret |-> TRUE, fs |-> f, line |-> "SIMULATED MOVE"]
    ELSE IF env = "ok"
    THEN [ret |-> TRUE, fs |-> shutil_move(f, source, destination_dir), line |-> "MOVED"]
    ELSE IF env = "PermissionError"
    THEN [ret |-> FALSE, fs |-> f, line |-> "FAILED (Permission)"]
    ELSE [ret |-> FALSE, fs |-> f, line |-> "FAILED (Error)"]

(***************************************************************************)
(* organize_directory: one iteration of the loop over target.iterdir().    *)
(***************************************************************************)
NewStats == [moved |-> 0, skipped |-> 0, failed |-> 0, total_items |-> 0]

inc(st, key) == [st EXCEPT ![key] = @ + 1]

\* a faulty variant: hidden files are not filtered
skip_rule_dirs_only(f, item) == is_dir(f, <<item>>)

\* a faulty variant: directories are not filtered
skip_rule_hidden_only(f, item) == Head(item) = "."

\* item.is_dir() or item.name.startswith('.')
skip_rule_A(f, item) == is_dir(f, <<item>>) \/ Head(item) = "."

\* not item.suffix
skip_rule_B(item) == suffix(item) = <<>>

\* a faulty variant: a refused move is tallied as failed
count_move_failed(st, ret) == IF ret THEN inc(st, "moved") ELSE inc(st, "failed")

\* a faulty variant: the else branch is missing
count_move_no_else(st, ret) == IF ret THEN inc(st, "moved") ELSE st

\* if move_file_safely(...): stats['moved'] += 1 else: stats['skipped'] += 1
count_move(st, ret) == IF ret THEN inc(st, "moved") ELSE inc(st, "skipped")

\* a faulty variant: the destination directory is created in a dry run too
ensure_dir_always(f, d, dry, env_ok) == mkdir(f, d, env_ok)

\* if not dry_run: destination_dir.mkdir(exist_ok=True)
ensure_dir(f, d, dry, env_ok) == IF dry THEN [ok |-> TRUE, fs |-> f] ELSE mkdir(f, d, env_ok)

\* the body of the for loop for one item
organize_item(f, st, item, cmap, dry, mkdir_ok, move_env) ==
    LET st1 == inc(st, "total_items")
    IN  IF skip_rule_A(f, item)
        THEN [fs |-> f, stats |-> inc(st1, "skipped"), line |-> "Skipped"]
        ELSE IF skip_rule_B(item)
        THEN [fs |-> f, stats |-> inc(st1, "skipped"), line |-> "Skipped (No Extension)"]
        ELSE LET folder_name == classify_file(item, cmap)
                 made == ensure_dir(f, folder_name, dry, mkdir_ok)
             IN  IF ~made.ok
                 THEN [fs |-> f, stats |-> inc(st1, "failed"),
                       line |-> "Could not create directory"]
                 ELSE LET m == move_file_safely(made.fs, item, folder_name, dry, move_env)
                      IN  [fs |-> m.fs, stats |-> count_move(st1, m.ret), line |-> m.line]

(***************************************************************************)
(* The inputs the model draws from.                                        *)
(***************************************************************************)
a_p  == <<"a", ".", "p">>          \* a.p
a_P  == <<"a", ".", "P">>          \* a.P: the same extension in upper case
D_q  == <<"D", ".", "q">>          \* D.q: a name with a suffix that a folder may have too
h_p  == <<".", "h", ".", "p">>     \* .h.p: hidden, with a suffix
D    == <<"D">>                    \* D: no suffix; the name of a category folder

\* mappings of the organizer specification
Configs ==
    { << <<<<" ", "d">>, << <<".", "P", " ">> >> >> >>,                 \* {" d": [".P "]}
      << <<<<"d", ".", "q">>, << <<".", "p">> >> >> >> }                \* {"d.q": [".p"]}

\* what may be a top-level entry of the target directory at the start
TopEntries ==
    { <<a_p, "file">>, <<a_P, "file">>, <<D_q, "file">>, <<D_q, "dir">>, <<h_p, "file">>,
      <<D, "file">>, <<D, "dir">>, <<Other, "dir">> }

\* what a folder may already hold at the start
InsideNames == {a_p}

\* raw category names and raw extension lists of the index specification
RawCategories == { <<"d">>, <<" ", "d", "P", " ">>, <<"q", " ", "Q">> }

RawExtensions == { <<".", "p">>, <<" ", ".", "P", " ">>, <<".", "q">> }

RawExtensionLists == {<<>>} \cup {<<e>> : e \in RawExtensions}
                        \cup {<<e1, e2>> : e1 \in RawExtensions, e2 \in RawExtensions}

FileNames == {a_p, a_P, D_q, D, <<"a", ".">>}

\* a dictionary has one entry per key
DistinctKeys(items) ==
    \A i \in 1..Len(items) : \A j \in 1..Len(items) : i # j => items[i][1] # items[j][1]

RawConfigs ==
    UNION { {c \in [1..n -> RawCategories \X RawExtensionLists] : DistinctKeys(c)}
            : n \in 0..MaxPairs }

\* the file system with the top-level entries es and, in folder d, the files inner[d]
MakeFs(es, inner) ==
    LET tops   == {<<e[1]>> : e \in es}
        dirs   == {e[1] : e \in {x \in es : x[2] = "dir"}}
        nested == UNION { {<<d, n>> : n \in inner[d]} : d \in dirs }
    IN  [p \in tops \cup nested |->
            IF Len(p) = 1 /\ p[1] \in dirs THEN DirNode ELSE FileNode(p)]

InitialFs ==
    UNION { LET dirs == {e[1] : e \in {x \in es : x[2] = "dir"}}
            IN  {MakeFs(es, inner) : inner \in [dirs -> SUBSET InsideNames]}
          : es \in {s \in SUBSET TopEntries :
                        /\ Cardinality(s) <= MaxEntries
                        /\ \A x \in s : \A y \in s : x[1] = y[1] => x = y} }

(***************************************************************************)
(* The organizer: run() builds the index and organize_directory scans the  *)
(* listing, one entry per step, in whatever order the listing yields.      *)
(***************************************************************************)
NoRun == [ran |-> FALSE, dry_run |-> FALSE, stats |-> NewStats, moved |-> {}, before |-> <<>>]

\* the files a run's log reports as moved
MovedFiles(l) == {n \in DOMAIN l : l[n] = "MOVED"}

Init ==
    /\ config \in Configs
    /\ fs \in InitialFs
    /\ category_map = <<>>
    /\ qfile = <<>>
    /\ folder = <<>>
    /\ pc = "idle"
    /\ dry_run = FALSE
    /\ fs0 = fs
    /\ todo = {}
    /\ stats = NewStats
    /\ log = <<>>
    /\ prev = NoRun

\* run(): the index is built, the statistics start at zero, the directory is listed
Run(d) ==
    /\ pc \in {"idle", "done"}
    /\ pc' = "scan"
    /\ prev' = IF pc = "done"
               THEN [ran |-> TRUE, dry_run |-> dry_run, stats |-> stats,
                     moved |-> MovedFiles(log), before |-> fs0]
               ELSE prev
    /\ dry_run' = d
    /\ category_map' = get_category_map(config)
    /\ fs0' = fs
    /\ todo' = iterdir(fs)
    /\ stats' = NewStats
    /\ log' = <<>>
    /\ UNCHANGED <<config, qfile, folder, fs>>

\* one iteration of the loop, for the entry item, ending with the line echoed
Iterate(item, r) ==
    /\ fs' = r.fs
    /\ stats' = r.stats
    /\ log' = [n \in DOMAIN log \cup {item} |-> IF n = item THEN r.line ELSE log[n]]
    /\ todo' = todo \ {item}
    /\ UNCHANGED <<config, category_map, qfile, folder, pc, dry_run, fs0, prev>>

Outcome(item, mkdir_ok, move_env) ==
    organize_item(fs, stats, item, category_map, dry_run, mkdir_ok, move_env)

SkipDirOrHidden ==
    /\ pc = "scan"
    /\ \E item \in todo :
        LET r == Outcome(item, TRUE, "ok")
        IN  r.line = "Skipped" /\ Iterate(item, r)

SkipNoExtension ==
    /\ pc = "scan"
    /\ \E item \in todo :
        LET r == Outcome(item, TRUE, "ok")
        IN  r.line = "Skipped (No Extension)" /\ Iterate(item, r)

CreateDirFailed ==
    /\ pc = "scan"
    /\ \E item \in todo : \E mkdir_ok \in BOOLEAN :
        LET r == Outcome(item, mkdir_ok, "ok")
        IN  r.line = "Could not create directory" /\ Iterate(item, r)

Conflict ==
    /\ pc = "scan"
    /\ \E item \in todo :
        LET r == Outcome(item, TRUE, "ok")
        IN  r.line = "SKIPPED (Conflict)" /\ Iterate(item, r)

SimulatedMove ==
    /\ pc = "scan"
    /\ \E item \in todo :
        LET r == Outcome(item, TRUE, "ok")
        IN  r.line = "SIMULATED MOVE" /\ Iterate(item, r)

Moved ==
    /\ pc = "scan"
    /\ \E item \in todo :
        LET r == Outcome(item, TRUE, "ok")
        IN  r.line = "MOVED" /\ Iterate(item, r)

MoveFailed ==
    /\ pc = "scan"
    /\ \E item \in todo : \E move_env \in {"PermissionError", "Exception"} :
        LET r == Outcome(item, TRUE, move_env)
        IN  r.line \in {"FAILED (Permission)", "FAILED (Error)"} /\ Iterate(item, r)

\* return stats: the run is over
Return ==
    /\ pc = "scan"
    /\ todo = {}
    /\ pc' = "done"
    /\ UNCHANGED <<config, category_map, qfile, folder, dry_run, fs, fs0, todo, stats, log, prev>>

Next ==
    \/ \E d \in BOOLEAN : Run(d)
    \/ SkipDirOrHidden
    \/ SkipNoExtension
    \/ CreateDirFailed
    \/ Conflict
    \/ SimulatedMove
    \/ Moved
    \/ MoveFailed
    \/ Return

Spec == Init /\ [][Next]_vars

(***************************************************************************)
(* The index specification: get_category_map on any mapping of the bounded *)
(* universe, then classify_file on any file name.                          *)
(***************************************************************************)
InitIndex ==
    /\ config \in RawConfigs
    /\ category_map = <<>>
    /\ qfile = <<>>
    /\ folder = <<>>
    /\ pc = "config"
    /\ dry_run = FALSE
    /\ fs = <<>>
    /\ fs0 = <<>>
    /\ todo = {}
    /\ stats = NewStats
    /\ log = <<>>
    /\ prev = NoRun

BuildIndex ==
    /\ pc = "config"
    /\ category_map' = get_category_map(config)
    /\ pc' = "indexed"
    /\ UNCHANGED <<config, qfile, folder, dry_run, fs, fs0, todo, stats, log, prev>>

Classify ==
    /\ pc = "indexed"
    /\ \E f \in FileNames :
        /\ qfile' = f
        /\ folder' = classify_file(f, category_map)
    /\ pc' = "classified"
    /\ UNCHANGED <<config, category_map, dry_run, fs, fs0, todo, stats, log, prev>>

NextIndex == BuildIndex \/ Classify

SpecIndex == InitIndex /\ [][NextIndex]_vars

(***************************************************************************)
(* What the index and the classifier are to compute, stated without the    *)
(* functions above: by the positions of a mapping and by letter pairs.     *)
(***************************************************************************)
CasePairs ==
    { <<"a", "A">>, <<"b", "B">>, <<"d", "D">>, <<"e", "E">>, <<"h", "H">>, <<"n", "N">>,
      <<"o", "O">>, <<"p", "P">>, <<"q", "Q">>, <<"r", "R">>, <<"t", "T">>, <<"x", "X">> }

LowerLetters == {c[1] : c \in CasePairs}

UpperLetters == {c[2] : c \in CasePairs}

LowerOf(c) == IF c \in UpperLetters THEN CHOOSE l \in LowerLetters : <<l, c>> \in CasePairs ELSE c

UpperOf(c) == IF c \in LowerLetters THEN CHOOSE u \in UpperLetters : <<c, u>> \in CasePairs ELSE c

\* s from its first to its last character that is not a blank
Trimmed(s) ==
    LET inked == {i \in 1..Len(s) : s[i] # " "}
    IN  IF inked = {} THEN <<>>
        ELSE SubSeq(s, CHOOSE i \in inked : \A j \in inked : i <= j,
                       CHOOSE i \in inked : \A j \in inked : j <= i)

Lowered(s) == [i \in 1..Len(s) |-> LowerOf(s[i])]

\* trimmed, first character upper case, the others lower case
FirstUpperRestLower(s) ==
    LET t == Trimmed(s)
    IN  [i \in 1..Len(t) |-> IF i = 1 THEN UpperOf(t[i]) ELSE LowerOf(t[i])]

\* trimmed, first character upper case, the others as they are
FirstUpperRestKept(s) ==
    LET t == Trimmed(s)
    IN  [i \in 1..Len(t) |-> IF i = 1 THEN UpperOf(t[i]) ELSE t[i]]

\* the (category, extension) pairs of the mapping, in mapping order
Positions == UNION { {<<i, j>> : j \in 1..Len(config[i][2])} : i \in 1..Len(config) }

Later(x, y) == y[1] > x[1] \/ (y[1] = x[1] /\ y[2] > x[2])

RawName(x) == config[x[1]][1]

ExtKey(x) == Lowered(Trimmed(config[x[1]][2][x[2]]))

\* the last pair of the mapping with the extension key k
IsLastFor(x, k) ==
    /\ x \in Positions
    /\ ExtKey(x) = k
    /\ \A y \in Positions : ExtKey(y) = k => ~Later(x, y)

Indexed == pc \in {"indexed", "classified"}

\* C6 as amended: once the index is built, every extension of the mapping is a
\* key of it, and the folder it maps to is the name of the last category that
\* lists it, trimmed, with its first character in upper case and every other
\* character in lower case.
C6_NameCapitalized ==
    Indexed =>
        \A x \in Positions :
            /\ ExtKey(x) \in DOMAIN category_map
            /\ IsLastFor(x, ExtKey(x)) =>
                   category_map[ExtKey(x)] = FirstUpperRestLower(RawName(x))

\* C6 as claimed: the folder is the trimmed name with its first character in
\* upper case and every remaining character unchanged.
C6_RestUnchanged ==
    Indexed =>
        \A x \in Positions :
            /\ ExtKey(x) \in DOMAIN category_map
            /\ IsLastFor(x, ExtKey(x)) =>
                   category_map[ExtKey(x)] = FirstUpperRestKept(RawName(x))

\* the category " dP " is in the index as the folder "Dp"
C6_Witness ==
    /\ pc = "indexed"
    /\ \E x \in Positions :
        /\ RawName(x) = <<" ", "d", "P", " ">>
        /\ IsLastFor(x, ExtKey(x))
        /\ category_map[ExtKey(x)] = <<"D", "p">>

\* the pairs of the mapping whose extension is the lower-cased suffix of a name
Matching(name) == {x \in Positions : ExtKey(x) = Lowered(suffix(name))}

ExpectedFolder(name) ==
    IF Matching(name) = {} THEN Other
    ELSE LET x == CHOOSE y \in Matching(name) : \A z \in Matching(name) : ~Later(y, z)
         IN  FirstUpperRestLower(RawName(x))

\* C8: the folder classify_file returns is the normalized name of the last pair
\* of the mapping whose trimmed, lower-cased extension is the file's lower-cased
\* suffix, and "Other" when there is none; names whose suffixes differ in case
\* only classify alike.
C8_LastMatchWins ==
    /\ pc = "classified" => folder = ExpectedFolder(qfile)
    /\ Indexed =>
          \A f \in FileNames : \A g \in FileNames :
              Lowered(suffix(f)) = Lowered(suffix(g)) =>
                  classify_file(f, category_map) = classify_file(g, category_map)

\* a.P is classified by the later of two pairs that name different folders
C8_Witness ==
    /\ pc = "classified"
    /\ qfile = a_P
    /\ \E x \in Matching(qfile) : \E y \in Matching(qfile) :
        /\ Later(x, y)
        /\ FirstUpperRestLower(RawName(x)) # FirstUpperRestLower(RawName(y))
        /\ folder = FirstUpperRestLower(RawName(y))

(***************************************************************************)
(* The organizer's properties.                                             *)
(***************************************************************************)
Scanning == pc \in {"scan", "done"}

Lines(set) == {n \in DOMAIN log : log[n] \in set}

MovedLines == {"MOVED", "SIMULATED MOVE"}

SkippedLines ==
    {"Skipped", "Skipped (No Extension)", "SKIPPED (Conflict)",
     "FAILED (Permission)", "FAILED (Error)"}

FailedLines == {"Could not create directory"}

\* the entry is a regular file that is neither hidden nor without a suffix
Eligible(f, n) == ~is_dir(f, <<n>>) /\ Head(n) # "." /\ suffix(n) # <<>>

\* the statistics after one more item, counted under key
Counted(st, key) == [st EXCEPT !.total_items = @ + 1, ![key] = @ + 1]

\* C1: throughout a run and when it returns, total_items is the sum of moved,
\* skipped and failed; every visited entry has one line and is counted in the
\* one counter of that line; when the run returns every listed entry was visited.
C1_CountersPartition ==
    Scanning =>
        /\ stats.total_items = stats.moved + stats.skipped + stats.failed
        /\ stats.total_items = Cardinality(DOMAIN log)
        /\ stats.moved = Cardinality(Lines(MovedLines))
        /\ stats.skipped = Cardinality(Lines(SkippedLines))
        /\ stats.failed = Cardinality(Lines(FailedLines))
        /\ pc = "done" => DOMAIN log = iterdir(fs0)

\* a run returned with a moved, a skipped and a failed entry
C1_Witness ==
    pc = "done" /\ stats.moved >= 1 /\ stats.skipped >= 1 /\ stats.failed >= 1

\* C2: in a dry run the file system stays as it was when the run started.
C2_DryRunKeepsFs == (Scanning /\ dry_run) => fs = fs0

\* a dry run returned having simulated a move into a folder that does not exist
C2_Witness ==
    /\ pc = "done"
    /\ dry_run
    /\ \E n \in DOMAIN log :
        /\ log[n] = "SIMULATED MOVE"
        /\ ~exists(fs, <<classify_file(n, category_map)>>)

\* C3: in a real run, when the destination path of an eligible entry exists
\* as the entry is visited, the step changes nothing in the file system and
\* counts the entry as skipped.
C3_ConflictSkipped ==
    [][\A item \in todo \ todo' :
          ( /\ pc = "scan"
            /\ ~dry_run
            /\ Eligible(fs, item)
            /\ exists(fs, <<classify_file(item, category_map), item>>) )
          => /\ fs' = fs
             /\ stats' = Counted(stats, "skipped")
             /\ log'[item] = "SKIPPED (Conflict)"]_vars

\* a real run met a conflict: source and destination are both as they were
C3_Witness ==
    /\ Scanning
    /\ ~dry_run
    /\ \E n \in DOMAIN log :
        LET dest == <<classify_file(n, category_map), n>>
        IN  /\ log[n] = "SKIPPED (Conflict)"
            /\ exists(fs, <<n>>) /\ fs[<<n>>] = fs0[<<n>>]
            /\ exists(fs, dest) /\ fs[dest] = fs0[dest]

\* C4: a real run that follows a dry run (so starts from the state the dry run
\* started from) reports the moved and skipped counts the dry run reported.
C4_DryRunPredicts ==
    (pc = "done" /\ prev.ran /\ prev.dry_run /\ ~dry_run /\ prev.before = fs0)
        => /\ stats.moved = prev.stats.moved
           /\ stats.skipped = prev.stats.skipped

\* the path in f of the file that was the top-level entry n of f0
PlacesOf(f, f0, n) == {p \in DOMAIN f : f[p] = f0[<<n>>]}

SecondRealRun == Scanning /\ prev.ran /\ ~prev.dry_run /\ ~dry_run

\* the files the first run moved: not at the top level when the second run
\* starts, not moved by the second run, and where the first run put them
MovedStay ==
    \A n \in prev.moved :
        LET home == <<classify_file(n, category_map), n>>
        IN  /\ exists(fs0, home) /\ fs0[home] = prev.before[<<n>>]
            /\ ~(exists(fs0, <<n>>) /\ fs0[<<n>>].kind = "file")
            /\ n \in DOMAIN log => log[n] = "Skipped"
            /\ exists(fs, home) /\ fs[home] = fs0[home]
            /\ PlacesOf(fs, prev.before, n) = {home}

\* C5 as amended: in the second of two real runs, no file the first run moved is
\* a top-level file, the second run moves none of them, and each stays where
\* the first run put it.
C5_MovedStayMoved == SecondRealRun => MovedStay

\* C5 as claimed: the same, and the second run records failed == 0.
C5_SecondRunNoFailure ==
    SecondRealRun => (MovedStay /\ (pc = "done" => stats.failed = 0))

\* a second real run returned after a first one that moved a file, and failed
\* to create a folder
C5_Witness ==
    /\ SecondRealRun
    /\ pc = "done"
    /\ prev.moved # {}
    /\ stats.failed >= 1

\* C7: in a real run a failure to create the destination directory counts the
\* entry as failed only and leaves the file system alone; a failure of the move
\* counts it as skipped only and leaves the source where it is; either way the
\* entry leaves the listing for good and the scan goes on until every listed
\* entry was visited.
C7_ItemScopedFailures ==
    /\ [](pc = "done" => DOMAIN log = iterdir(fs0))
    /\ [][\A item \in todo \ todo' :
            (pc = "scan" /\ ~dry_run) =>
              /\ log'[item] = "Could not create directory" =>
                    /\ stats' = Counted(stats, "failed")
                    /\ fs' = fs
              /\ log'[item] \in {"FAILED (Permission)", "FAILED (Error)"} =>
                    /\ stats' = Counted(stats, "skipped")
                    /\ exists(fs', <<item>>) /\ fs'[<<item>>] = fs[<<item>>]
              /\ todo' = todo \ {item}
              /\ item \notin DOMAIN log
              /\ pc' = "scan"]_vars

\* a real run returned after a failed folder creation and a failed move
C7_Witness ==
    /\ pc = "done"
    /\ ~dry_run
    /\ \E n \in DOMAIN log : \E m \in DOMAIN log :
        /\ log[n] = "Could not create directory"
        /\ log[m] \in {"FAILED (Permission)", "FAILED (Error)"}
    /\ stats.failed = 1
    /\ stats.moved = 0

\* C9: the entries visited or still to visit are the children the target had
\* when the run started, none twice; each directory, hidden entry or entry with
\* no suffix that was visited is counted as skipped and is where it was; every
\* folder created during the run is the category folder of a visited eligible
\* entry.
C9_ScanPolicy ==
    Scanning =>
        /\ DOMAIN log \cup todo = iterdir(fs0)
        /\ DOMAIN log \cap todo = {}
        /\ stats.total_items = Cardinality(DOMAIN log)
        /\ \A n \in DOMAIN log :
              (is_dir(fs0, <<n>>) \/ Head(n) = "." \/ suffix(n) = <<>>) =>
                  /\ log[n] \in {"Skipped", "Skipped (No Extension)"}
                  /\ n \in Lines(SkippedLines)
                  /\ exists(fs, <<n>>) /\ fs[<<n>>] = fs0[<<n>>]
        /\ \A p \in DOMAIN fs \ DOMAIN fs0 :
              \E n \in DOMAIN log :
                  /\ Eligible(fs0, n)
                  /\ p \in {<<classify_file(n, category_map)>>,
                            <<classify_file(n, category_map), n>>}

\* a real run returned: a hidden file and a file with no suffix were skipped,
\* a third file went into a folder the run created, and the total is 3
C9_Witness ==
    /\ pc = "done"
    /\ ~dry_run
    /\ stats.total_items = 3
    /\ h_p \in DOMAIN log /\ log[h_p] = "Skipped"
    /\ D \in DOMAIN log /\ log[D] = "Skipped (No Extension)"
    /\ \E n \in DOMAIN log :
        log[n] = "MOVED" /\ ~exists(fs0, <<classify_file(n, category_map)>>)

====
